---- MODULE Spec2Model ----
(***************************************************************************)
(* Prompt Optimizer (Streamlit app): the sidebar widgets, the "Optimize    *)
(* Prompt" button, build_optimized_prompt and apply_transformations.       *)
(*                                                                         *)
(* A text is a sequence of characters.  A character is a one-character     *)
(* string (" ", "\n", ":", ",", ".", "?"), or an atom: a run of fixed      *)
(* text that neither starts nor ends with whitespace ("## System", "X").   *)
(* Every whitespace character the code can strip, split on or dedent is a  *)
(* character of its own, never the edge of an atom.  The atom "<fence>"    *)
(* is the three backquotes of a code fence, "<now>" the UTC time of the    *)
(* run, and ">" in the default structure the arrow of the source.          *)
(***************************************************************************)
EXTENDS Integers, Sequences, FiniteSets

(* ------------------------------------------------------------------ *)
(* str methods and textwrap.dedent used by the source                 *)
(* ------------------------------------------------------------------ *)

\* str.isspace on one character
IsSpace(c) == c \in {" ", "\t", "\n"}

\* the characters textwrap.dedent counts as indentation: [ \t]
IsIndent(c) == c \in {" ", "\t"}

\* one-character text
Ch(c) == <<c>>

Spaces(n) == [i \in 1..n |-> " "]

\* str.lstrip()
lstrip(s) ==
    LET nonws == {i \in 1..Len(s) : ~IsSpace(s[i])}
    IN  IF nonws = {} THEN <<>>
        ELSE SubSeq(s, CHOOSE i \in nonws : \A j \in nonws : i <= j, Len(s))

\* str.rstrip()
rstrip(s) ==
    LET nonws == {i \in 1..Len(s) : ~IsSpace(s[i])}
    IN  IF nonws = {} THEN <<>>
        ELSE SubSeq(s, 1, CHOOSE i \in nonws : \A j \in nonws : j <= i)

\* str.strip()
strip(s) == lstrip(rstrip(s))

\* str.split(sep) for a one-character separator: always at least one piece.
\* Computed by halving: the last piece of the left half and the first piece
\* of the right half are one piece of the whole.
RECURSIVE split(_, _)
split(s, sep) ==
    IF \A i \in 1..Len(s) : s[i] # sep THEN <<s>>
    ELSE IF Len(s) = 1 THEN << <<>>, <<>> >>
    ELSE LET m == Len(s) \div 2
             l == split(SubSeq(s, 1, m), sep)
             r == split(SubSeq(s, m + 1, Len(s)), sep)
         IN  SubSeq(l, 1, Len(l) - 1) \o << l[Len(l)] \o r[1] >> \o Tail(r)

\* sep.join(parts), computed by halving
RECURSIVE join(_, _)
join(sep, parts) ==
    IF parts = <<>> THEN <<>>
    ELSE IF Len(parts) = 1 THEN parts[1]
    ELSE LET m == Len(parts) \div 2
         IN  join(sep, SubSeq(parts, 1, m)) \o sep
             \o join(sep, SubSeq(parts, m + 1, Len(parts)))

\* str.splitlines(): the pieces between line breaks, without a last empty
\* piece after a final line break; "" has no lines
splitlines(s) ==
    LET parts == split(s, "\n")
    IN  IF parts[Len(parts)] = <<>> THEN SubSeq(parts, 1, Len(parts) - 1)
        ELSE parts

\* str.split(): the maximal runs of non-whitespace characters
RECURSIVE words(_)
words(s) ==
    LET t == lstrip(s)
    IN  IF t = <<>> THEN <<>>
        ELSE LET ws  == {i \in 1..Len(t) : IsSpace(t[i])}
                 end == IF ws = {} THEN Len(t) + 1
                        ELSE CHOOSE i \in ws : \A j \in ws : i <= j
             IN  <<SubSeq(t, 1, end - 1)>> \o words(SubSeq(t, end, Len(t)))

\* str.lower() of one character; the atoms with capitals are the options of
\* the select boxes and the words a prompt is typed from
LowerChar(c) ==
    CASE c = "Generate"     -> "generate"
      [] c = "Rewrite"      -> "rewrite"
      [] c = "Professional" -> "professional"
      [] c = "Friendly"     -> "friendly"
      [] c = "Optimize"     -> "optimize"
      [] c = "Improve"      -> "improve"
      [] c = "Hi"           -> "hi"
      [] c = "Please"       -> "please"
      [] OTHER              -> c

\* str.lower()
lower(s) == [i \in 1..Len(s) |-> LowerChar(s[i])]

\* the leading run of [ \t] of a line
LeadingIndent(ln) ==
    LET non == {i \in 1..Len(ln) : ~IsIndent(ln[i])}
    IN  IF non = {} THEN ln
        ELSE SubSeq(ln, 1, (CHOOSE i \in non : \A j \in non : i <= j) - 1)

\* the longest common prefix of two texts
CommonPrefix(a, b) ==
    LET m    == IF Len(a) < Len(b) THEN Len(a) ELSE Len(b)
        diff == {i \in 1..m : a[i] # b[i]}
    IN  IF diff = {} THEN SubSeq(a, 1, m)
        ELSE SubSeq(a, 1, (CHOOSE i \in diff : \A j \in diff : i <= j) - 1)

\* the margin loop of textwrap.dedent over the indents found: their longest
\* common prefix
RECURSIVE Margin(_)
Margin(indents) ==
    IF Len(indents) = 1 THEN indents[1]
    ELSE LET m == Len(indents) \div 2
         IN  CommonPrefix(Margin(SubSeq(indents, 1, m)),
                          Margin(SubSeq(indents, m + 1, Len(indents))))

NotEmpty(ln) == ln # <<>>

\* the indents textwrap.dedent finds: one per line that has a character
\* other than [ \t], in line order
Indents(lines) ==
    LET found == SelectSeq(lines, NotEmpty)
    IN  [i \in 1..Len(found) |-> LeadingIndent(found[i])]

StartsWith(s, p) == Len(p) <= Len(s) /\ SubSeq(s, 1, Len(p)) = p

\* textwrap.dedent(text): lines of only [ \t] become empty, then the common
\* leading whitespace of the remaining non-empty lines is removed from every
\* line that starts with it
dedent(text) ==
    LET raw     == split(text, "\n")
        lines   == [i \in 1..Len(raw) |->
                      IF \A k \in 1..Len(raw[i]) : IsIndent(raw[i][k])
                      THEN <<>> ELSE raw[i]]
        indents == Indents(lines)
        margin  == IF indents = <<>> THEN <<>>
                   ELSE Margin(indents)
        cut     == [i \in 1..Len(lines) |->
                      IF margin # <<>> /\ StartsWith(lines[i], margin)
                      THEN SubSeq(lines[i], Len(margin) + 1, Len(lines[i]))
                      ELSE lines[i]]
    IN  join(Ch("\n"), cut)

(* ------------------------------------------------------------------ *)
(* Helper functions of the app                                        *)
(* ------------------------------------------------------------------ *)

\* sanitize(text): (text or "").strip()
sanitize(text) == strip(text)

\* json.dumps of a key or a string value: the text in double quotes
Quoted(k) == Ch("\"") \o k \o Ch("\"")

\* the keys of {k: ... for k in example_keys}: each key once, at the
\* position of its first occurrence
RECURSIVE DictKeys(_)
DictKeys(keys) ==
    IF keys = <<>> THEN <<>>
    ELSE LET front == DictKeys(SubSeq(keys, 1, Len(keys) - 1))
             last  == keys[Len(keys)]
         IN  IF \E i \in 1..Len(front) : front[i] = last THEN front
             ELSE Append(front, last)

\* the lines json.dumps(..., indent=2) writes for "properties"
SchemaProperties(keys) ==
    IF keys = <<>> THEN << Spaces(2) \o <<"\"properties\":", " ", "{},">> >>
    ELSE << Spaces(2) \o <<"\"properties\":", " ", "{">> >>
         \o [i \in 1..(3 * Len(keys)) |->
               CASE i % 3 = 1 -> Spaces(4) \o Quoted(keys[(i + 2) \div 3])
                                           \o <<":", " ", "{">>
                 [] i % 3 = 2 -> Spaces(6) \o <<"\"type\":", " ", "\"string\"">>
                 [] OTHER     -> Spaces(4)
                                 \o Ch(IF i = 3 * Len(keys) THEN "}" ELSE "},")]
         \o << Spaces(2) \o Ch("},") >>

\* the lines json.dumps(..., indent=2) writes for "required"
SchemaRequired(keys) ==
    IF keys = <<>> THEN << Spaces(2) \o <<"\"required\":", " ", "[],">> >>
    ELSE << Spaces(2) \o <<"\"required\":", " ", "[">> >>
         \o [i \in 1..Len(keys) |->
               Spaces(4) \o Quoted(keys[i])
                         \o (IF i = Len(keys) THEN <<>> ELSE Ch(","))]
         \o << Spaces(2) \o Ch("],") >>

\* as_json_schema(example_keys): the schema as indented JSON text
as_json_schema(example_keys) ==
    join(Ch("\n"),
         << Ch("{"),
            Spaces(2) \o <<"\"$schema\":", " ",
                           "\"http://json-schema.org/draft-07/schema#\",">>,
            Spaces(2) \o <<"\"type\":", " ", "\"object\",">> >>
         \o SchemaProperties(DictKeys(example_keys))
         \o SchemaRequired(example_keys)
         \o << Spaces(2) \o <<"\"additionalProperties\":", " ", "false">>,
               Ch("}") >>)

default_style_guide ==
    Ch("Write clearly and concretely. Prefer active voice. Avoid hedging. Cite facts only when sources are provided. Use numbered steps when helpful.")

\* x or y
Or(x, y) == IF x # <<>> THEN x ELSE y

(* ------------------------------------------------------------------ *)
(* The headings of the document                                       *)
(* ------------------------------------------------------------------ *)
HSystem       == "## System"
HInstructions == "## Instructions"
HConstraints  == "### Constraints & Preferences"
HTask         == "### Task (from user)"
HAudience     == "### Audience"
HFewShot      == "### Few-shot Examples"
HVariables    == "### Variables"
HJsonSchema   == "### Output JSON Schema"
HQuality      == "### Quality Checklist (before finalizing)"
HSelfEval     == "### Self-Evaluation (after drafting)"

\* datetime.utcnow().strftime(...): the clock's text, one atom
now == Ch("<now>")

\* a triple-quoted template: a line break, then the lines at their
\* indentation, the last line being the indentation before the closing quotes
Template(indent, lines) ==
    Ch("\n") \o join(Ch("\n"), [i \in 1..Len(lines) |-> Spaces(indent) \o lines[i]])
             \o Ch("\n") \o Spaces(indent)

(* ------------------------------------------------------------------ *)
(* build_optimized_prompt                                             *)
(* ------------------------------------------------------------------ *)

sys_lines(a) ==
    << <<"You are", " ">> \o Or(a.persona, Ch("an expert assistant"))
         \o <<".", " ", "Focus on", " ">>
         \o (IF a.goal # <<>> THEN lower(a.goal) ELSE Ch("the task"))
         \o <<" ", "for the specified audience.">>,
       Ch("Follow the style guide and constraints exactly. Think privately; return only the final answer, not your chain-of-thought.") >>
    \o (IF a.tone # <<>>
        THEN << <<"Maintain a", " ">> \o lower(a.tone)
                \o <<" ", "tone appropriate for", " ">>
                \o Or(a.audience, Ch("the user")) \o Ch(".") >>
        ELSE <<>>)
    \o (IF a.reading_level # <<>>
        THEN << <<"Target reading level:", " ">> \o a.reading_level \o Ch(".") >>
        ELSE <<>>)
    \o (IF a.structure # <<>>
        THEN << <<"Structure:", " ">> \o a.structure \o Ch(".") >>
        ELSE <<>>)
    \o (IF a.lang # <<>> /\ a.lang # Ch("Auto")
        THEN << <<"Respond in", " ">> \o a.lang \o Ch(".") >>
        ELSE <<>>)

MustIncludeLabel == "Must include:"
MustNotLabel     == "Do NOT include:"

\* must_not_entry with the test of must_haves for that of must_not
must_not_entry_WrongTest(a) ==
    IF a.must_haves # <<>>
    THEN << <<MustNotLabel, " ">> \o join(<<";", " ">>, a.must_not)
            \o Ch(".") >>
    ELSE <<>>

\* if must_not: constraints.append("Do NOT include: " + "; ".join(must_not) + ".")
must_not_entry(a) ==
    IF a.must_not # <<>>
    THEN << <<MustNotLabel, " ">> \o join(<<";", " ">>, a.must_not)
            \o Ch(".") >>
    ELSE <<>>

constraints(a) ==
    (IF a.format_pref # <<>>
     THEN << <<"Preferred output format:", " ">> \o a.format_pref \o Ch(".") >>
     ELSE <<>>)
    \o (IF a.length_pref # <<>>
        THEN << <<"Conciseness/length:", " ">> \o a.length_pref \o Ch(".") >>
        ELSE <<>>)
    \o (IF a.must_haves # <<>>
        THEN << <<MustIncludeLabel, " ">> \o join(<<";", " ">>, a.must_haves)
                \o Ch(".") >>
        ELSE <<>>)
    \o must_not_entry(a)
    \o << default_style_guide >>
    \o << <<"If information is missing or ambiguous,", " ">>
          \o (IF a.ask_clarifying
              THEN Ch("ask targeted clarifying questions first.")
              ELSE Ch("state assumptions explicitly and proceed.")) >>

\* few_shot_block with the first line of the block only
few_shot_block_FirstLine(a) ==
    LET fs == sanitize(a.few_shot)
    IN  IF fs # <<>>
        THEN dedent(Template(8, << Ch(HFewShot), split(fs, "\n")[1] >>))
        ELSE <<>>

few_shot_block(a) ==
    LET fs == sanitize(a.few_shot)
    IN  IF fs # <<>>
        THEN dedent(Template(8, << Ch(HFewShot), fs >>))
        ELSE <<>>

\* the (key, value) pairs of the mapping whose value sanitizes to non-empty
HasValue(pair) == sanitize(pair[2]) # <<>>

SetItems(pairs) == SelectSeq(pairs, HasValue)

\* "\n".join([f"  {k}: {v}" for k, v in variables.items() if sanitize(v)])
VariableItems(pairs) ==
    LET kept == SetItems(pairs)
    IN  join(Ch("\n"),
             [i \in 1..Len(kept) |->
                Spaces(2) \o kept[i][1] \o <<":", " ">> \o kept[i][2]])

VariablesTemplate(items) ==
    Template(12,
      << Ch(HVariables),
         Ch("Use the following variables if referenced in the task. If not provided, ask for them or make reasonable defaults."),
         Ch("<fence>yaml"),
         Ch("variables:"),
         items,
         Ch("<fence>") >>)

\* variables_block without the test that some item is left
variables_block_NoItemsTest(a) ==
    IF a.variables # <<>>
    THEN dedent(VariablesTemplate(VariableItems(a.variables)))
    ELSE <<>>

variables_block(a) ==
    LET items == VariableItems(a.variables)
    IN  IF a.variables # <<>> /\ strip(items) # <<>>
        THEN dedent(VariablesTemplate(items))
        ELSE <<>>

json_block(a) ==
    IF a.output_json /\ a.json_fields # <<>>
    THEN dedent(Template(8,
           << Ch(HJsonSchema),
              Ch("The response must be valid JSON conforming to this schema:"),
              Ch("<fence>json"),
              as_json_schema(a.json_fields),
              Ch("<fence>"),
              Ch("Return only JSON in the final answer (no prose outside the JSON object).") >>))
    ELSE <<>>

QualityTemplate ==
    Template(12,
      << Ch(HQuality),
         Ch("- [ ] Directly addresses the stated goal and audience"),
         Ch("- [ ] Concrete, specific, and unambiguous"),
         Ch("- [ ] Contains all required elements and respects constraints"),
         Ch("- [ ] Correct tone and structure"),
         Ch("- [ ] No chain-of-thought or private reasoning exposed"),
         Ch("- [ ] If assumptions were made, they are listed at the end") >>)

\* quality_block without its test of the flag
quality_block_Always(a) == dedent(QualityTemplate)

quality_block(a) ==
    IF a.include_quality_checklist THEN dedent(QualityTemplate) ELSE <<>>

self_eval_block(a) ==
    IF a.include_self_eval
    THEN dedent(Template(12,
           << Ch(HSelfEval),
              Ch("Provide a brief, 3-bullet justification of why this response meets the goal and constraints. Keep it under 80 words total.") >>))
    ELSE <<>>

\* the f-string of the final prompt, before dedent
FinalTemplate(raw_prompt, a) ==
    LET cs == constraints(a)
    IN  Ch("\n")
        \o Spaces(4) \o Ch(HSystem) \o Ch("\n")
        \o Spaces(4) \o <<"- Role:", " ">> \o Or(a.persona, Ch("Expert Assistant"))
                     \o Ch("\n")
        \o Spaces(4) \o <<"- Date:", " ">> \o now \o Ch("\n")
        \o Ch("\n")
        \o Spaces(4) \o Ch(HInstructions) \o Ch("\n")
        \o Spaces(4) \o join(Ch("\n"), sys_lines(a)) \o Ch("\n")
        \o Ch("\n")
        \o Spaces(4) \o Ch(HConstraints) \o Ch("\n")
        \o Spaces(4) \o join(Ch("\n"), [i \in 1..Len(cs) |-> <<"-", " ">> \o cs[i]])
                     \o Ch("\n")
        \o Ch("\n")
        \o Spaces(4) \o Ch(HTask) \o Ch("\n")
        \o Spaces(4) \o sanitize(raw_prompt) \o Ch("\n")
        \o Ch("\n")
        \o Spaces(4) \o Ch(HAudience) \o Ch("\n")
        \o Spaces(4) \o Or(sanitize(a.audience), Ch("General")) \o Ch("\n")
        \o Ch("\n")
        \o Spaces(4) \o few_shot_block(a) \o variables_block(a) \o json_block(a)
                     \o quality_block(a) \o self_eval_block(a) \o Ch("\n")
        \o Spaces(4)

\* the lines kept by "Clean blank lines": those not empty after strip()
NotBlank(ln) == strip(ln) # <<>>

NonBlank(lines) == SelectSeq(lines, NotBlank)

\* CleanBlankLines without its filter: every line is kept
CleanBlankLines_KeepAll(text) ==
    LET kept == splitlines(text)
    IN  join(Ch("\n"), [i \in 1..Len(kept) |-> rstrip(kept[i])]) \o Ch("\n")

\* "\n".join([ln.rstrip() for ln in text.splitlines() if ln.strip() != ""]) + "\n"
CleanBlankLines(text) ==
    LET kept == NonBlank(splitlines(text))
    IN  join(Ch("\n"), [i \in 1..Len(kept) |-> rstrip(kept[i])]) \o Ch("\n")

build_optimized_prompt(raw_prompt, a) ==
    CleanBlankLines(dedent(FinalTemplate(raw_prompt, a)))

(* ------------------------------------------------------------------ *)
(* apply_transformations                                              *)
(* ------------------------------------------------------------------ *)
AdvShort     == "Expanded a very short prompt into a detailed task with constraints and audience."
AdvPreserved == "Preserved intent while clarifying success criteria and output format."
AdvPunct     == "Added clear instructions and removed ambiguity about expected deliverables."
AdvJson      == "Added optional JSON schema enforcement when selected."
AdvChecklist == "Included a quality checklist and self-evaluation to raise answer quality."

\* w in text, for a keyword w: the keywords are atoms of the alphabet, and
\* no other characters of the alphabet spell one
Contains(text, w) == \E i \in 1..Len(text) : text[i] = w

ShortLimit == 6

\* apply_transformations with <= for < in the test of the word count
apply_transformations_AtMost(raw_prompt) ==
    (IF Len(words(raw_prompt)) <= ShortLimit THEN <<AdvShort>> ELSE <<>>)
    \o (IF \E w \in {"optimize", "improve", "rewrite"} :
              Contains(lower(raw_prompt), w)
        THEN <<AdvPreserved>> ELSE <<>>)
    \o (IF ~ \E ch \in {"?", "."} : Contains(raw_prompt, ch)
        THEN <<AdvPunct>> ELSE <<>>)
    \o <<AdvJson>>
    \o <<AdvChecklist>>

apply_transformations(raw_prompt) ==
    (IF Len(words(raw_prompt)) < ShortLimit THEN <<AdvShort>> ELSE <<>>)
    \o (IF \E w \in {"optimize", "improve", "rewrite"} :
              Contains(lower(raw_prompt), w)
        THEN <<AdvPreserved>> ELSE <<>>)
    \o (IF ~ \E ch \in {"?", "."} : Contains(raw_prompt, ch)
        THEN <<AdvPunct>> ELSE <<>>)
    \o <<AdvJson>>
    \o <<AdvChecklist>>

(* ------------------------------------------------------------------ *)
(* The page: widgets, the script's derived values, the button         *)
(* ------------------------------------------------------------------ *)

VARIABLES
    widgets,    \* the value of every sidebar widget and of the prompt text area
    generate,   \* the button's value in the last run of the script
    optimized,  \* the text shown by placeholder.code; <<>> when nothing is shown
    ideas       \* the optimizer notes shown; <<>> when nothing is shown

vars == <<widgets, generate, optimized, ideas>>

\* the value= of each widget
Defaults ==
    [ persona        |-> Ch("a senior prompt engineer and domain expert"),
      goal           |-> Ch("Generate"),
      audience       |-> Ch("startup founder with basic technical literacy"),
      tone           |-> Ch("Professional"),
      format_pref    |-> Ch("Numbered steps"),
      length_pref    |-> Ch("Medium"),
      reading_level  |-> Ch("Undergrad"),
      structure      |-> Ch("Introduction > Key Points > Examples > Actionable Steps"),
      lang           |-> Ch("Auto"),
      must_haves     |-> <<"Actionable steps", "\n", "Assumptions", "\n",
                           "References section when sources are given">>,
      must_not       |-> <<"Apologies", "\n", "Speculation without evidence", "\n",
                           "Chain-of-thought">>,
      ask_clarifying            |-> TRUE,
      include_quality_checklist |-> TRUE,
      include_self_eval         |-> FALSE,
      output_json               |-> FALSE,
      json_fields_text |-> <<"title", ",", " ", "summary", ",", " ", "steps">>,
      few_shot         |-> <<>>,
      variables_input  |-> <<"product", ":", " ", "Acme Analytics", "\n",
                             "audience", ":", " ", "growth PMs">>,
      raw_prompt       |-> <<>> ]

\* the page after the user has emptied the optional text areas and cleared
\* the optional check boxes
Bare ==
    [Defaults EXCEPT !.must_haves = <<>>, !.must_not = <<>>,
                     !.include_quality_checklist = FALSE,
                     !.json_fields_text = <<>>, !.variables_input = <<>>]

\* json_fields = [f.strip() for f in json_fields_text.split(",") if f.strip()]
json_fields(text) ==
    LET kept == SelectSeq(split(text, ","), NotBlank)
    IN  [i \in 1..Len(kept) |-> strip(kept[i])]

\* variables[k] = v: the value of an existing key is replaced in place, a new
\* key is added at the end
DictSet(pairs, k, v) ==
    IF \E i \in 1..Len(pairs) : pairs[i][1] = k
    THEN [i \in 1..Len(pairs) |-> IF pairs[i][1] = k THEN <<k, v>> ELSE pairs[i]]
    ELSE Append(pairs, <<k, v>>)

\* the loop over variables_input.splitlines(): for each line with a ":",
\* k, v = line.split(":", 1); variables[sanitize(k)] = sanitize(v)
RECURSIVE ParseVariables(_)
ParseVariables(lines) ==
    IF lines = <<>> THEN <<>>
    ELSE LET before == ParseVariables(SubSeq(lines, 1, Len(lines) - 1))
             line   == lines[Len(lines)]
             colons == {i \in 1..Len(line) : line[i] = ":"}
             c      == CHOOSE i \in colons : \A j \in colons : i <= j
         IN  IF colons = {} THEN before
             ELSE DictSet(before, sanitize(SubSeq(line, 1, c - 1)),
                          sanitize(SubSeq(line, c + 1, Len(line))))

variables(text) == ParseVariables(splitlines(text))

\* the list passed without the filter
NonBlankItems_All(items) == items

\* [m for m in items if sanitize(m)]
NonBlankItems(items) == SelectSeq(items, NotBlank)

DefaultTask == "Summarize the key points of this article for a busy executive."

\* the first argument of the call: raw_prompt or "Summarize ..."
CallPrompt(w) == Or(w.raw_prompt, Ch(DefaultTask))

\* the keyword arguments of the call of build_optimized_prompt
CallArgs(w) ==
    [ persona        |-> w.persona,
      audience       |-> w.audience,
      goal           |-> w.goal,
      tone           |-> w.tone,
      format_pref    |-> w.format_pref,
      length_pref    |-> w.length_pref,
      reading_level  |-> w.reading_level,
      must_haves     |-> NonBlankItems(splitlines(w.must_haves)),
      must_not       |-> NonBlankItems(splitlines(w.must_not)),
      ask_clarifying            |-> w.ask_clarifying,
      include_quality_checklist |-> w.include_quality_checklist,
      include_self_eval         |-> w.include_self_eval,
      output_json    |-> w.output_json,
      json_fields    |-> json_fields(w.json_fields_text),
      few_shot       |-> w.few_shot,
      variables      |-> variables(w.variables_input),
      structure      |-> w.structure,
      lang           |-> w.lang ]

(* ------------------------------------------------------------------ *)
(* What the user can enter                                            *)
(* ------------------------------------------------------------------ *)
MaxItems        == 2   \* lines of a must-have / must-not text area
MaxFewShotLines == 3   \* lines of the few-shot text area
MaxWords        == 6   \* words typed into the prompt text area

SeqsUpTo(S, n) == UNION {[1..k -> S] : k \in 0..n}

Texts(lineSet, n) == {join(Ch("\n"), ls) : ls \in SeqsUpTo(lineSet, n)}

PersonaValues       == {Defaults.persona, <<>>, Ch(" ")}
GoalOptions         == {Ch("Generate"), Ch("Rewrite")}
AudienceValues      == {Defaults.audience, <<>>, Ch(" ")}
ToneOptions         == {Ch("Professional"), Ch("Friendly")}
FormatOptions       == {Ch("Numbered steps"), Ch("Table")}
LengthOptions       == {Ch("Medium"), Ch("Concise")}
ReadingLevelOptions == {Ch("Undergrad"), Ch("General")}
StructureValues     == {Defaults.structure, <<>>, Ch(" ")}
LangOptions         == {Ch("Auto"), Ch("Spanish"), Ch("English")}
MustHaveTexts       == {Defaults.must_haves}
                       \cup Texts({Ch("X"), Ch("Y"), Ch(" ")}, MaxItems)
MustNotTexts        == {Defaults.must_not}
                       \cup Texts({Ch("Z"), Ch(" ")}, MaxItems)
JsonFieldsTexts     == {Defaults.json_fields_text, <<>>, <<" ", ",", " ">>,
                        <<"a", ",", "a", ",", " ", "b">>}
FewShotTexts        == {<<>>, Ch(" "), Ch("u"),
                        <<"u", "\n", " ", "\n", " ", " ", "v">>}
FewShotLines        == {Ch("u"), <<" ", " ", "v">>, Ch(" ")}
VariablesTexts      == {Defaults.variables_input, <<>>, Ch("n"),
                        <<"k", ":", " ", "v">>,
                        <<"k", ":", " ", "\n", "j", ":">>,
                        <<"k", ":", "v", "\n", "j", ":", " ", "w", "\n", "k", ":", "x">>}
PromptWords         == {Ch("Hi"), Ch("Optimize")}
ExamplePrompts      == {<<"Please", " ", "optimize", " ", "this", " ", "essay",
                          " ", "for", " ", "clarity", ".">>,
                        <<"improve", " ", "this", "?">>}

(* ------------------------------------------------------------------ *)
(* Runs of the script                                                 *)
(* ------------------------------------------------------------------ *)

Init ==
    /\ widgets = Defaults
    /\ generate = FALSE
    /\ optimized = <<>>
    /\ ideas = <<>>

\* a run of the script after widget f changed to v (a widget reruns the
\* script when its value changes): the button is not pressed in this run, so
\* nothing is generated and the placeholder is empty
Edit(f, v) ==
    /\ widgets' = [widgets EXCEPT ![f] = v]
    /\ generate' = FALSE
    /\ optimized' = <<>>
    /\ ideas' = <<>>

SetPersona ==
    \E v \in PersonaValues : v # widgets.persona /\ Edit("persona", v)
SetGoal ==
    \E v \in GoalOptions : v # widgets.goal /\ Edit("goal", v)
SetAudience ==
    \E v \in AudienceValues : v # widgets.audience /\ Edit("audience", v)
SetTone ==
    \E v \in ToneOptions : v # widgets.tone /\ Edit("tone", v)
SetFormatPref ==
    \E v \in FormatOptions : v # widgets.format_pref /\ Edit("format_pref", v)
SetLengthPref ==
    \E v \in LengthOptions : v # widgets.length_pref /\ Edit("length_pref", v)
SetReadingLevel ==
    \E v \in ReadingLevelOptions : v # widgets.reading_level /\ Edit("reading_level", v)
SetStructure ==
    \E v \in StructureValues : v # widgets.structure /\ Edit("structure", v)
SetLang ==
    \E v \in LangOptions : v # widgets.lang /\ Edit("lang", v)
SetMustHaves ==
    \E v \in MustHaveTexts : v # widgets.must_haves /\ Edit("must_haves", v)
SetMustNot ==
    \E v \in MustNotTexts : v # widgets.must_not /\ Edit("must_not", v)
SetAskClarifying ==
    \E v \in BOOLEAN : v # widgets.ask_clarifying /\ Edit("ask_clarifying", v)
SetQualityChecklist ==
    \E v \in BOOLEAN : v # widgets.include_quality_checklist /\ Edit("include_quality_checklist", v)
SetSelfEval ==
    \E v \in BOOLEAN : v # widgets.include_self_eval /\ Edit("include_self_eval", v)
SetOutputJson ==
    \E v \in BOOLEAN : v # widgets.output_json /\ Edit("output_json", v)
SetJsonFields ==
    \E v \in JsonFieldsTexts : v # widgets.json_fields_text /\ Edit("json_fields_text", v)
SetFewShot ==
    \E v \in FewShotTexts : v # widgets.few_shot /\ Edit("few_shot", v)
SetVariables ==
    \E v \in VariablesTexts : v # widgets.variables_input /\ Edit("variables_input", v)

\* the user types one more line at the end of the few-shot text area
AddFewShotLine ==
    /\ Len(splitlines(widgets.few_shot)) < MaxFewShotLines
    /\ \E line \in FewShotLines :
         Edit("few_shot",
              widgets.few_shot
              \o (IF widgets.few_shot = <<>> THEN <<>> ELSE Ch("\n")) \o line)

\* the user types one whitespace character into the empty prompt
TypeBlank ==
    /\ widgets.raw_prompt = <<>>
    /\ \E c \in {" ", "\n"} : Edit("raw_prompt", Ch(c))

\* the user types one more word, after a space when words are there already
TypeWord ==
    /\ Len(words(widgets.raw_prompt)) < MaxWords
    /\ ~ \E ch \in {"?", "."} : Contains(widgets.raw_prompt, ch)
    /\ \E word \in PromptWords :
         Edit("raw_prompt",
              widgets.raw_prompt
              \o (IF words(widgets.raw_prompt) = <<>> THEN <<>> ELSE Ch(" "))
              \o word)

\* the user ends the prompt with a full stop or a question mark
TypeMark ==
    /\ words(widgets.raw_prompt) # <<>>
    /\ ~ \E ch \in {"?", "."} : Contains(widgets.raw_prompt, ch)
    /\ \E c \in {".", "?"} : Edit("raw_prompt", widgets.raw_prompt \o Ch(c))

\* the user pastes a whole prompt into the prompt text area
PastePrompt ==
    \E v \in ExamplePrompts : v # widgets.raw_prompt /\ Edit("raw_prompt", v)

\* the user presses "Optimize Prompt": the run with generate = True
Optimize ==
    /\ generate' = TRUE
    /\ optimized' = build_optimized_prompt(CallPrompt(widgets), CallArgs(widgets))
    /\ ideas' = apply_transformations(widgets.raw_prompt)
    /\ UNCHANGED widgets

NextInstructions ==
    \/ SetPersona \/ SetGoal \/ SetAudience \/ SetTone \/ SetReadingLevel
    \/ SetStructure \/ SetLang \/ Optimize

NextConstraints ==
    \/ SetFormatPref \/ SetLengthPref \/ SetMustHaves \/ SetMustNot
    \/ SetAskClarifying \/ Optimize

NextSections ==
    \/ SetFewShot \/ SetVariables \/ SetOutputJson \/ SetJsonFields
    \/ SetQualityChecklist \/ SetSelfEval \/ Optimize

NextFewShot ==
    \/ AddFewShotLine \/ SetOutputJson \/ SetQualityChecklist \/ Optimize

NextTask == TypeBlank \/ TypeWord \/ TypeMark \/ PastePrompt \/ Optimize

NextBare ==
    \/ SetPersona \/ SetAudience \/ SetStructure \/ SetLang
    \/ SetQualityChecklist \/ SetSelfEval \/ SetOutputJson
    \/ TypeBlank \/ Optimize

Next ==
    \/ NextInstructions \/ NextConstraints \/ NextSections \/ NextFewShot
    \/ NextTask

\* the whole page
Spec == Init /\ [][Next]_vars

\* the page with one panel edited, the other widgets at their defaults
SpecInstructions == Init /\ [][NextInstructions]_vars
SpecConstraints  == Init /\ [][NextConstraints]_vars
SpecSections     == Init /\ [][NextSections]_vars
SpecFewShot      == Init /\ [][NextFewShot]_vars
SpecTask         == Init /\ [][NextTask]_vars

\* the page with the optional inputs emptied, then edited
InitBare ==
    /\ widgets = Bare
    /\ generate = FALSE
    /\ optimized = <<>>
    /\ ideas = <<>>

SpecBare == InitBare /\ [][NextBare]_vars

(* ------------------------------------------------------------------ *)
(* Reading the document shown                                         *)
(* ------------------------------------------------------------------ *)
FixedHeadings    == <<HSystem, HInstructions, HConstraints, HTask, HAudience>>
OptionalHeadings == <<HFewShot, HVariables, HJsonSchema, HQuality, HSelfEval>>

Range(f) == {f[i] : i \in DOMAIN f}

AllHeadings == Range(FixedHeadings) \cup Range(OptionalHeadings)

\* a line that is a heading and nothing else
IsHeading(ln) == Len(strip(ln)) = 1 /\ strip(ln)[1] \in AllHeadings

DocLines == splitlines(optimized)

\* the headings among the lines, top to bottom
HeadingsOf(lines) ==
    LET hl == SelectSeq(lines, IsHeading)
    IN  [i \in 1..Len(hl) |-> strip(hl[i])[1]]

Headings == HeadingsOf(DocLines)

\* the lines under the first heading h, down to the next heading
SectionOf(lines, h) ==
    LET at    == {i \in 1..Len(lines) : strip(lines[i]) = Ch(h)}
        first == CHOOSE i \in at : \A j \in at : i <= j
        later == {i \in (first + 1)..Len(lines) : IsHeading(lines[i])}
        stop  == IF later = {} THEN Len(lines) + 1
                 ELSE CHOOSE i \in later : \A j \in later : i <= j
    IN  IF at = {} THEN <<>> ELSE SubSeq(lines, first + 1, stop - 1)

Section(h) == SectionOf(DocLines, h)

Stripped(lines) == [i \in 1..Len(lines) |-> strip(lines[i])]

\* the lines of a section, stripped, that start with the given characters
Entries(h, prefix) ==
    LET StartsWithPrefix(ln) == StartsWith(ln, prefix)
    IN  SelectSeq(Stripped(Section(h)), StartsWithPrefix)

args == CallArgs(widgets)

(* ------------------------------------------------------------------ *)
(* C1                                                                 *)
(* ------------------------------------------------------------------ *)

\* C1: the document returned by build_optimized_prompt ends with exactly one
\* line break, and none of its lines is empty after trimming whitespace.
C1_NoBlankLines ==
    generate =>
        /\ Len(optimized) >= 2
        /\ optimized[Len(optimized)] = "\n"
        /\ optimized[Len(optimized) - 1] # "\n"
        /\ LET lines == split(SubSeq(optimized, 1, Len(optimized) - 1), "\n")
           IN  \A i \in 1..Len(lines) : strip(lines[i]) # <<>>

\* C1 witness: a document is shown for a few-shot block with a blank line
\* inside, with the checklist and the variables left out
C1_Witness ==
    /\ generate
    /\ widgets.few_shot = <<"u", "\n", " ", "\n", " ", " ", "v">>
    /\ ~widgets.include_quality_checklist
    /\ widgets.variables_input = <<>>
    /\ Len(optimized) > 0

(* ------------------------------------------------------------------ *)
(* C2                                                                 *)
(* ------------------------------------------------------------------ *)
AllOptionalOff ==
    /\ ~args.include_quality_checklist
    /\ ~args.include_self_eval
    /\ ~args.output_json
    /\ args.few_shot = <<>>
    /\ args.variables = <<>>
    /\ args.must_haves = <<>>
    /\ args.must_not = <<>>
    /\ args.json_fields = <<>>

\* C2, as claimed: with every optional flag false and every optional list
\* empty, the headings of the document are exactly Instructions,
\* Constraints & Preferences, Task and Audience.
C2_Original ==
    (generate /\ AllOptionalOff) =>
        Range(Headings) = {HInstructions, HConstraints, HTask, HAudience}

\* C2, amended: with every optional flag false and every optional list
\* empty, the headings of the document are exactly System, Instructions,
\* Constraints & Preferences, Task and Audience, each once and in this order.
C2_Amended ==
    (generate /\ AllOptionalOff) => Headings = FixedHeadings

\* C2 witness: a document is shown with everything optional off
C2_Witness ==
    /\ generate
    /\ AllOptionalOff
    /\ widgets.structure = <<>>
    /\ HSystem \in Range(Headings)

(* ------------------------------------------------------------------ *)
(* C3                                                                 *)
(* ------------------------------------------------------------------ *)
Trigger(h) ==
    CASE h = HFewShot    -> sanitize(args.few_shot) # <<>>
      [] h = HVariables  -> \E i \in 1..Len(args.variables) :
                                sanitize(args.variables[i][2]) # <<>>
      [] h = HJsonSchema -> args.output_json /\ args.json_fields # <<>>
      [] h = HQuality    -> args.include_quality_checklist
      [] h = HSelfEval   -> args.include_self_eval

\* C3: each optional heading is in the document iff its trigger holds, at
\* most once, and the optional headings come after the Audience heading in
\* the order Few-shot Examples, Variables, Output JSON Schema, Quality
\* Checklist, Self-Evaluation.
C3_OptionalSections ==
    generate =>
        LET hs      == Headings
            At(h)   == {i \in 1..Len(hs) : hs[i] = h}
            Rank(h) == CHOOSE k \in 1..5 : OptionalHeadings[k] = h
        IN  /\ \A h \in Range(OptionalHeadings) :
                 /\ (At(h) # {}) <=> Trigger(h)
                 /\ Cardinality(At(h)) <= 1
            /\ \A i, j \in 1..Len(hs) :
                 /\ (hs[i] = HAudience /\ hs[j] \in Range(OptionalHeadings))
                      => i < j
                 /\ (/\ hs[i] \in Range(OptionalHeadings)
                     /\ hs[j] \in Range(OptionalHeadings)
                     /\ Rank(hs[i]) < Rank(hs[j])) => i < j

\* C3 witness: a document is shown where Few-shot Examples and Output JSON
\* Schema are triggered and the variables mapping has entries, all of them
\* with an empty value
C3_Witness ==
    /\ generate
    /\ Trigger(HFewShot) /\ Trigger(HJsonSchema) /\ Trigger(HQuality)
    /\ args.variables # <<>> /\ ~Trigger(HVariables)
    /\ HFewShot \in Range(Headings)

(* ------------------------------------------------------------------ *)
(* C4                                                                 *)
(* ------------------------------------------------------------------ *)
Advisories == <<AdvShort, AdvPreserved, AdvPunct, AdvJson, AdvChecklist>>

\* the number of places where a word starts
WordCount(text) ==
    Cardinality({i \in 1..Len(text) :
                   ~IsSpace(text[i]) /\ (i = 1 \/ IsSpace(text[i - 1]))})

\* C4: the advisories are a subsequence of the fixed order; short-prompt is
\* there iff the prompt has fewer than 6 words, preserved-intent iff the
\* lower-cased prompt contains optimize, improve or rewrite,
\* missing-punctuation iff it has neither "?" nor "."; the two unconditional
\* advisories are the last two; "Hi" gives 4 advisories and "Please optimize
\* this essay for clarity." gives 3.
C4_Advisories ==
    generate =>
        LET raw == widgets.raw_prompt
            n   == Len(ideas)
        IN  /\ n >= 2 /\ n <= 5
            /\ ideas[n - 1] = AdvJson /\ ideas[n] = AdvChecklist
            /\ \A i, j \in 1..n : i < j =>
                 \E k, l \in 1..5 :
                    k < l /\ ideas[i] = Advisories[k] /\ ideas[j] = Advisories[l]
            /\ (AdvShort \in Range(ideas)) <=> (WordCount(raw) < 6)
            /\ (AdvPreserved \in Range(ideas))
                 <=> (\E i \in 1..Len(raw) :
                        LowerChar(raw[i]) \in {"optimize", "improve", "rewrite"})
            /\ (AdvPunct \in Range(ideas))
                 <=> (\A i \in 1..Len(raw) : raw[i] \notin {"?", "."})
            /\ (raw = Ch("Hi")) => n = 4
            /\ (raw = <<"Please", " ", "optimize", " ", "this", " ", "essay",
                        " ", "for", " ", "clarity", ".">>) => n = 3

\* C4 witness: the notes are shown for a prompt of six words with a keyword
\* and a full stop
C4_Witness ==
    /\ generate
    /\ WordCount(widgets.raw_prompt) = 6
    /\ Contains(widgets.raw_prompt, "Optimize")
    /\ Contains(widgets.raw_prompt, ".")
    /\ Len(ideas) = 3

(* ------------------------------------------------------------------ *)
(* C5, C6                                                             *)
(* ------------------------------------------------------------------ *)

\* the entry "- <label> item; item." of the constraints list
Joined(label, items) ==
    <<"-", " ", label, " ">> \o join(<<";", " ">>, items) \o Ch(".")

\* C5: when the must-have text area has a line that is not blank, the
\* Constraints & Preferences list has exactly one "Must include:" entry, the
\* non-blank lines in their order joined by "; " and ended by "."; when it
\* has no such line there is no "Must include" entry.
C5_MustInclude ==
    generate =>
        LET items == SelectSeq(split(widgets.must_haves, "\n"), NotBlank)
            found == Entries(HConstraints, <<"-", " ", "Must include:">>)
        IN  IF items # <<>> THEN found = << Joined("Must include:", items) >>
            ELSE found = <<>>

\* C5 witness: a document is shown for must-have lines X, Y; it has the
\* entry "- Must include: X; Y."
C5_Witness ==
    /\ generate
    /\ widgets.must_haves = <<"X", "\n", "Y">>
    /\ <<"-", " ", "Must include:", " ", "X", ";", " ", "Y", ".">>
         \in Range(Stripped(Section(HConstraints)))

\* C6, as claimed: when the must-not list is not empty, the Constraints &
\* Preferences list has the entry "Must NOT include: " + the items joined by
\* "; " + ".", and no such entry when the list is empty.
C6_Original ==
    generate =>
        LET found == Entries(HConstraints, <<"-", " ", "Must NOT include:">>)
        IN  IF args.must_not # <<>>
            THEN found = << Joined("Must NOT include:", args.must_not) >>
            ELSE found = <<>>

\* C6, amended: when the must-not list is not empty, the Constraints &
\* Preferences list has exactly one entry "Do NOT include: " + the items
\* joined by "; " + ".", and no such entry when the list is empty.
C6_Amended ==
    generate =>
        LET found == Entries(HConstraints, <<"-", " ", "Do NOT include:">>)
        IN  IF args.must_not # <<>>
            THEN found = << Joined("Do NOT include:", args.must_not) >>
            ELSE found = <<>>

\* C6 witness: a document is shown for the must-not lines Z, blank; it has the
\* entry "- Do NOT include: Z."
C6_Witness ==
    /\ generate
    /\ widgets.must_not = <<"Z", "\n", " ">>
    /\ <<"-", " ", "Do NOT include:", " ", "Z", ".">>
         \in Range(Stripped(Section(HConstraints)))

(* ------------------------------------------------------------------ *)
(* C7                                                                 *)
(* ------------------------------------------------------------------ *)
HasInstruction(first) == Entries(HInstructions, Ch(first)) # <<>>

\* C7: each of the tone, reading level, structure and response language
\* lines of the Instructions is in the document iff its field sanitizes to
\* non-empty; the "Respond in" line is also left out for "Auto", and is
\* "Respond in Spanish." for "Spanish".
C7_Claim ==
    generate =>
        /\ HasInstruction("Maintain a") <=> (sanitize(args.tone) # <<>>)
        /\ HasInstruction("Target reading level:")
             <=> (sanitize(args.reading_level) # <<>>)
        /\ HasInstruction("Structure:") <=> (sanitize(args.structure) # <<>>)
        /\ HasInstruction("Respond in")
             <=> (sanitize(args.lang) # <<>> /\ args.lang # Ch("Auto"))
        /\ (args.lang = Ch("Spanish"))
             => Entries(HInstructions, Ch("Respond in"))
                  = << <<"Respond in", " ", "Spanish", ".">> >>

(* ------------------------------------------------------------------ *)
(* C8                                                                 *)
(* ------------------------------------------------------------------ *)

\* C8, as claimed: the lines under the Few-shot Examples heading are the
\* lines of the supplied few-shot block, unchanged and in order, blank lines
\* and each line's leading whitespace included.
C8_Original ==
    (generate /\ sanitize(args.few_shot) # <<>>) =>
        Section(HFewShot) = split(args.few_shot, "\n")

\* C8, amended: the lines under the Few-shot Examples heading are the
\* non-blank lines of the few-shot block, in order, each equal to its line of
\* the block up to leading and trailing whitespace; blank lines of the block
\* are dropped.
C8_Amended ==
    (generate /\ sanitize(args.few_shot) # <<>>) =>
        Stripped(Section(HFewShot))
          = Stripped(SelectSeq(split(args.few_shot, "\n"), NotBlank))

\* C8 witness: a document is shown for a three-line block with a blank line
\* inside and an indented last line
C8_Witness ==
    /\ generate
    /\ widgets.few_shot = <<"u", "\n", " ", "\n", " ", " ", "v">>
    /\ Len(Section(HFewShot)) = 2

(* ------------------------------------------------------------------ *)
(* C9                                                                 *)
(* ------------------------------------------------------------------ *)

\* C9: the body of the Task section is never empty: it is the default
\* sentence when the prompt sanitizes to empty, a whitespace-only prompt
\* included, and the sanitized prompt otherwise.
C9_Claim ==
    generate =>
        /\ Section(HTask) # <<>>
        /\ join(Ch("\n"), Stripped(Section(HTask)))
             = IF sanitize(widgets.raw_prompt) = <<>> THEN Ch(DefaultTask)
               ELSE sanitize(widgets.raw_prompt)

(* ------------------------------------------------------------------ *)
(* C10                                                                *)
(* ------------------------------------------------------------------ *)
SameIndent(lines) ==
    \A i \in 1..Len(lines) : LeadingIndent(lines[i]) = LeadingIndent(lines[1])

\* the "key: value" lines of the Variables listing: the lines between
\* "variables:" and the closing fence
VariableEntries ==
    LET sec == Section(HVariables)
        at  == {i \in 1..Len(sec) : strip(sec[i]) = Ch("variables:")}
        k   == CHOOSE i \in at : TRUE
    IN  IF at = {} THEN <<>> ELSE SubSeq(sec, k + 1, Len(sec) - 1)

\* C10: every heading line starts at column 0, and the lines of one block
\* have the same indentation: the Instructions lines, the constraint
\* entries, the entries of the Variables listing.
C10_Claim ==
    generate =>
        /\ LET lines == DocLines
           IN  \A i \in 1..Len(lines) :
                 IsHeading(lines[i]) => ~IsSpace(lines[i][1])
        /\ SameIndent(Section(HInstructions))
        /\ SameIndent(Section(HConstraints))
        /\ SameIndent(VariableEntries)

====
